---- MODULE Spec2Model ----
(***************************************************************************)
(* Model of keadm's "debug get" command                                    *)
(* (keadm/cmd/keadm/app/cmd/debug/get.go): retrieval of records from the   *)
(* edge node's metadata store, label-selector parsing and filtering, typed *)
(* reconstruction and rendering.                                           *)
(*                                                                         *)
(* Go strings that the code takes apart (selector expressions, record     *)
(* keys) are sequences of one-character strings; strings that are only    *)
(* compared as a whole (resource types, formats) are TLA+ strings.         *)
(***************************************************************************)
EXTENDS Naturals, Sequences, FiniteSets

VARIABLES
    phase,      \* which operation has run: "init" before any
    selector,   \* GetOptions.LabelSelector / the argument of SplitSelectorParameters
    splitRet,   \* what SplitSelectorParameters returned
    data,       \* the records handed to FilterSelector
    filterRet,  \* what FilterSelector returned
    store,      \* the rows of the metadata store, in scan order
    failing,    \* the store operations that fail: types whose scan fails, "lookup"
    args,       \* the command's arguments: the resource type, then the names
    opts,       \* GetOptions: Namespace, AllNamespace, OutputFormat, and what
                \* the DataPath leads to (pathExists, dbOpens)
    validateRet,\* what Validate returned
    queryRet,   \* what QueryDataFromDatabase returned
    toPrint,    \* the records handed to the renderer
    printRet,   \* what the renderer returned and wrote
    parseRet,   \* what ParseMetaToV1List and ParseMetaToAPIList returned
    execRet     \* what ExecuteGet returned and wrote

vars == <<phase, selector, splitRet, data, filterRet,
          store, failing, args, opts, validateRet, queryRet, toPrint, printRet,
          parseRet, execRet>>

-----------------------------------------------------------------------------
(* Bounds of the model.                                                    *)

\* longest selector expression handed to SplitSelectorParameters
MaxSelLen == 6

\* most records handed to FilterSelector
MaxFilterData == 2

\* most rows of the metadata store
MaxStore == 3

\* most records handed to the renderer
MaxPrint == 4

\* characters of the selector expressions: a label character and the three
\* characters the parser looks for
SelAlphabet == {"a", "=", "!", ","}

-----------------------------------------------------------------------------
(* Go's strings package, on sequences of characters.                       *)

\* sub occurs in s starting at position i (1-based)
OccursAt(s, sub, i) ==
    /\ i >= 1
    /\ i + Len(sub) - 1 <= Len(s)
    /\ \A j \in 1..Len(sub) : s[i + j - 1] = sub[j]

\* strings.Index, 1-based; 0 when sub does not occur (Go's -1)
Index(s, sub) ==
    IF \E i \in 1..(Len(s) + 1) : OccursAt(s, sub, i)
    THEN CHOOSE i \in 1..(Len(s) + 1) :
            /\ OccursAt(s, sub, i)
            /\ \A j \in 1..(i - 1) : ~OccursAt(s, sub, j)
    ELSE 0

\* strings.Contains
Contains(s, sub) == Index(s, sub) # 0

\* strings.Split with a non-empty separator: cut at the leftmost occurrence,
\* then split the rest
RECURSIVE Split(_, _)
Split(s, sep) ==
    LET i == Index(s, sep)
    IN  IF i = 0
        THEN <<s>>
        ELSE <<SubSeq(s, 1, i - 1)>> \o Split(SubSeq(s, i + Len(sep), Len(s)), sep)

-----------------------------------------------------------------------------
(* The selector parser.                                                    *)

OpEqEq == <<"=", "=">>
OpNotEq == <<"!", "=">>
OpEq == <<"=">>
Comma == <<",">>

\* type Selector struct { Key, Value string; Exist bool }
Selector(k, v, e) == [Key |-> k, Value |-> v, Exist |-> e]

\* ParseLabel testing for "=" before "==" and "!="
ParseLabelEqFirst(label) ==
    IF Contains(label, OpEq) /\ Len(Split(label, OpEq)) # 2
    THEN [kind |-> "err", sel |-> Selector(<<>>, <<>>, FALSE)]
    ELSE IF Contains(label, OpEq)
    THEN [kind |-> "sel",
          sel |-> Selector(Split(label, OpEq)[1], Split(label, OpEq)[2], TRUE)]
    ELSE [kind |-> "skip", sel |-> Selector(<<>>, <<>>, FALSE)]

\* One iteration of the loop of SplitSelectorParameters on one term:
\* "err" (return nil, error), "sel" (append a clause) or "skip" (a term with
\* no operator appends nothing).
ParseLabel(label) ==
    IF Contains(label, OpEqEq)
    THEN LET labs == Split(label, OpEqEq)
         IN  IF Len(labs) # 2
             THEN [kind |-> "err", sel |-> Selector(<<>>, <<>>, FALSE)]
             ELSE [kind |-> "sel", sel |-> Selector(labs[1], labs[2], TRUE)]
    ELSE IF Contains(label, OpNotEq)
    THEN LET labs == Split(label, OpNotEq)
         IN  IF Len(labs) # 2
             THEN [kind |-> "err", sel |-> Selector(<<>>, <<>>, FALSE)]
             ELSE [kind |-> "sel", sel |-> Selector(labs[1], labs[2], FALSE)]
    ELSE IF Contains(label, OpEq)
    THEN LET labs == Split(label, OpEq)
         IN  IF Len(labs) # 2
             THEN [kind |-> "err", sel |-> Selector(<<>>, <<>>, FALSE)]
             ELSE [kind |-> "sel", sel |-> Selector(labs[1], labs[2], TRUE)]
    ELSE [kind |-> "skip", sel |-> Selector(<<>>, <<>>, FALSE)]

\* the loop over the terms, from term i on, with the clauses collected so far
RECURSIVE SplitLoop(_, _, _)
SplitLoop(labels, i, results) ==
    IF i > Len(labels)
    THEN [err |-> FALSE, sels |-> results]
    ELSE LET p == ParseLabel(labels[i])
         IN  CASE p.kind = "err" -> [err |-> TRUE, sels |-> <<>>]
               [] p.kind = "sel" -> SplitLoop(labels, i + 1, Append(results, p.sel))
               [] OTHER -> SplitLoop(labels, i + 1, results)

\* SplitSelectorParameters(args) ([]Selector, error)
SplitSelectorParameters(expr) == SplitLoop(Split(expr, Comma), 1, <<>>)

-----------------------------------------------------------------------------
(* Serialized documents.  A JSON text is modelled by what encoding/json   *)
(* makes of it: an object with its top-level members, an array with its   *)
(* elements, or a text that does not parse.                                *)

NoFields == [k \in {} |-> ""]

JObject(f) == [kind |-> "object", fields |-> f, elems |-> <<>>]
JArray(es) == [kind |-> "array", fields |-> NoFields, elems |-> es]
JInvalid == [kind |-> "invalid", fields |-> NoFields, elems |-> <<>>]

\* the value of a "metadata" member: an object with a name and, when
\* hasLabels, a "labels" member holding the set of <<key, value>> pairs
Metadata(name, hasLabels, labels) ==
    [name |-> name, hasLabels |-> hasLabels, labels |-> labels]

\* json.Unmarshal(text, &m) for m a map[string]interface{}: the members of
\* the text are stored into the map, each replacing the entry of its key;
\* entries of the map under other keys stay.  A text that is no object
\* is an error and leaves the map alone.
UnmarshalMap(text, m) ==
    IF text.kind = "object"
    THEN [err |-> FALSE,
          m |-> [k \in (DOMAIN m) \cup (DOMAIN text.fields) |->
                    IF k \in DOMAIN text.fields THEN text.fields[k] ELSE m[k]]]
    ELSE [err |-> TRUE, m |-> m]

\* dao.Meta: a row of the store
Meta(key, type, value) == [Key |-> key, Type |-> type, Value |-> value]

\* constants.ResourceSep
ResourceSep == <<"/">>

\* the characters of the resource types: model.ResourceTypePod, ...Node,
\* ...PodStatus, ...NodeStatus, ...Configmap, ...Secret and
\* constants.ResourceTypeEndpoints, ...Service
TypeChars(t) ==
    CASE t = "pod" -> <<"p", "o", "d">>
      [] t = "node" -> <<"n", "o", "d", "e">>
      [] t = "podstatus" -> <<"p", "o", "d", "s", "t", "a", "t", "u", "s">>
      [] t = "nodestatus" -> <<"n", "o", "d", "e", "s", "t", "a", "t", "u", "s">>
      [] t = "configmap" -> <<"c", "o", "n", "f", "i", "g", "m", "a", "p">>
      [] t = "secret" -> <<"s", "e", "c", "r", "e", "t">>
      [] t = "endpoints" -> <<"e", "n", "d", "p", "o", "i", "n", "t", "s">>
      [] t = "service" -> <<"s", "e", "r", "v", "i", "c", "e">>

\* the key of a record: namespace/resourceType/name
MkKey(ns, t, name) == ns \o ResourceSep \o TypeChars(t) \o ResourceSep \o name

-----------------------------------------------------------------------------
(* The selector filter.                                                    *)

\* LabelIs taking a missing label for a match
LabelIsOrMissing(labels, key, value) ==
    \A p \in labels : p[1] = key => p[2] = value

\* vLabel.(map[string]interface{})[key] == value: the label is present and
\* is that string
LabelIs(labels, key, value) == <<key, value>> \in labels

\* the loop over the clauses: flag stays true iff every clause holds
RECURSIVE SelectorFlag(_, _, _)
SelectorFlag(labels, sLabels, i) ==
    IF i > Len(sLabels)
    THEN TRUE
    ELSE LET sl == sLabels[i]
         IN  /\ IF ~sl.Exist
                THEN ~LabelIs(labels, sl.Key, sl.Value)
                ELSE LabelIs(labels, sl.Key, sl.Value)
             /\ SelectorFlag(labels, sLabels, i + 1)

\* the loop over the records, from record i on; jsonValue is the one map
\* every record is decoded into
RECURSIVE FilterLoop(_, _, _, _, _)
FilterLoop(records, i, sLabels, jsonValue, results) ==
    IF i > Len(records)
    THEN [outcome |-> "ok", results |-> results]
    ELSE LET v == records[i]
             u == UnmarshalMap(v.Value, jsonValue)
         IN  IF u.err
             THEN [outcome |-> "err", results |-> <<>>]
             ELSE IF "metadata" \notin DOMAIN u.m
             \* the type assertion on a nil interface panics
             THEN [outcome |-> "panic", results |-> <<>>]
             ELSE IF ~u.m["metadata"].hasLabels
             THEN FilterLoop(records, i + 1, sLabels, u.m, Append(results, v))
             ELSE IF SelectorFlag(u.m["metadata"].labels, sLabels, 1)
             THEN FilterLoop(records, i + 1, sLabels, u.m, Append(results, v))
             ELSE FilterLoop(records, i + 1, sLabels, u.m, results)

\* FilterSelector(data, selector) ([]dao.Meta, error)
FilterSelector(records, sel) ==
    LET s == SplitSelectorParameters(sel)
    IN  IF s.err
        THEN [outcome |-> "err", results |-> <<>>]
        ELSE FilterLoop(records, 1, s.sels, NoFields, <<>>)

-----------------------------------------------------------------------------
(* The metadata store (package dao) and the key parser (package util).     *)

\* dao.QueryAllMeta("type", t): the rows of type t, in scan order
QueryAllMeta(rows, t) == SelectSeq(rows, LAMBDA r : r.Type = t)

\* dao.QueryMeta("key", k): the values of the rows with key k
RECURSIVE QueryMeta(_, _)
QueryMeta(rows, k) ==
    IF rows = <<>>
    THEN <<>>
    ELSE (IF Head(rows).Key = k THEN <<Head(rows).Value>> ELSE <<>>)
            \o QueryMeta(Tail(rows), k)

\* the namespace util.ParseResourceEdge(key, model.QueryOperation) returns:
\* the first of the key's segments
NamespaceParsed(key) == Split(key, ResourceSep)[1]

\* strings.Replace(s, old, new, 1)
ReplaceFirst(s, old, new) ==
    LET i == Index(s, old)
    IN  IF i = 0
        THEN s
        ELSE SubSeq(s, 1, i - 1) \o new \o SubSeq(s, i + Len(old), Len(s))

-----------------------------------------------------------------------------
(* Record retrieval.                                                       *)

\* IsExistName comparing the names with the name the key ends in
IsExistNameExact(resNames, name) ==
    \E i \in 1..Len(resNames) :
        LET parts == Split(name, ResourceSep)
        IN  parts[Len(parts)] = resNames[i]

\* IsExistName(resNames, name): some name occurs in the key
IsExistName(resNames, name) ==
    \E i \in 1..Len(resNames) : Index(name, resNames[i]) # 0

\* Skipped ignoring the all-namespaces flag
SkippedIgnoringAll(g, resNS, resNames, key) ==
    \/ NamespaceParsed(key) # resNS
    \/ Len(resNames) > 0 /\ ~IsExistName(resNames, key)

\* the two "continue" tests at the head of each retrieval loop
Skipped(g, resNS, resNames, key) ==
    \/ NamespaceParsed(key) # resNS /\ ~g.AllNamespace
    \/ Len(resNames) > 0 /\ ~IsExistName(resNames, key)

QueryOk(results) == [err |-> "none", results |-> results]
QueryErr(kind) == [err |-> kind, results |-> <<>>]

\* the value a Go map yields for a key: nil (JSON null) when it has none
MapGet(m, k) == IF k \in DOMAIN m THEN m[k] ELSE "null"

\* the loop of getPodsFromDatabase / getNodeFromDatabase from record i on;
\* baseJSON and statusJSON are the two maps the function decodes into
RECURSIVE MergeLoop(_, _, _, _, _, _, _, _, _, _)
MergeLoop(g, rows, fails, resNS, resNames, baseType, statusType, records, i, st) ==
    IF i > Len(records)
    THEN QueryOk(st.results)
    ELSE LET v == records[i]
             statusKey == ReplaceFirst(v.Key,
                             ResourceSep \o TypeChars(baseType) \o ResourceSep,
                             ResourceSep \o TypeChars(statusType) \o ResourceSep)
             statusRecords == QueryMeta(rows, statusKey)
             b == UnmarshalMap(v.Value, st.baseJSON)
             s == UnmarshalMap(JArray(statusRecords), st.statusJSON)
             merged == [k \in (DOMAIN b.m) \cup {"status"} |->
                          IF k = "status" THEN MapGet(s.m, "status") ELSE b.m[k]]
         IN  IF Skipped(g, resNS, resNames, v.Key)
             THEN MergeLoop(g, rows, fails, resNS, resNames, baseType, statusType,
                            records, i + 1, st)
             ELSE IF "lookup" \in fails
             THEN QueryErr("store")
             ELSE IF Len(statusRecords) <= 0
             THEN MergeLoop(g, rows, fails, resNS, resNames, baseType, statusType,
                            records, i + 1,
                            [st EXCEPT !.results = Append(@, v)])
             ELSE IF b.err
             THEN QueryErr("decode")
             \* json.Marshal of the slice of status records is a JSON array,
             \* which does not decode into the map
             ELSE IF s.err
             THEN QueryErr("decode")
             ELSE MergeLoop(g, rows, fails, resNS, resNames, baseType, statusType,
                            records, i + 1,
                            [baseJSON |-> merged, statusJSON |-> s.m,
                             results |-> Append(st.results,
                                            [v EXCEPT !.Value = JObject(merged)])])

\* getMergedFromDatabase rewriting every record as a merge, its status null
\* when there is no status record
getMergedAlways(g, rows, fails, resNS, resNames, baseType, statusType) ==
    LET r == IF baseType \in fails
             THEN QueryErr("store")
             ELSE MergeLoop(g, rows, fails, resNS, resNames, baseType, statusType,
                            QueryAllMeta(rows, baseType), 1,
                            [baseJSON |-> NoFields, statusJSON |-> NoFields,
                             results |-> <<>>])
        rewritten(v) ==
            IF v.Value.kind = "object"
            THEN [v EXCEPT !.Value =
                    JObject([k \in (DOMAIN v.Value.fields) \cup {"status"} |->
                               IF k = "status" THEN "null" ELSE v.Value.fields[k]])]
            ELSE v
    IN  [r EXCEPT !.results = [j \in 1..Len(r.results) |-> rewritten(r.results[j])]]

getMergedFromDatabase(g, rows, fails, resNS, resNames, baseType, statusType) ==
    IF baseType \in fails
    THEN QueryErr("store")
    ELSE MergeLoop(g, rows, fails, resNS, resNames, baseType, statusType,
                   QueryAllMeta(rows, baseType), 1,
                   [baseJSON |-> NoFields, statusJSON |-> NoFields, results |-> <<>>])

\* getPodsFromDatabase(resNS, resNames)
getPodsFromDatabase(g, rows, fails, resNS, resNames) ==
    getMergedFromDatabase(g, rows, fails, resNS, resNames, "pod", "podstatus")

\* getNodeFromDatabase(resNS, resNames)
getNodeFromDatabase(g, rows, fails, resNS, resNames) ==
    getMergedFromDatabase(g, rows, fails, resNS, resNames, "node", "nodestatus")

\* getSingleResourceFromDatabase(resNS, resNames, resType)
getSingleResourceFromDatabase(g, rows, fails, resNS, resNames, resType) ==
    IF resType \in fails
    THEN QueryErr("store")
    ELSE QueryOk(SelectSeq(QueryAllMeta(rows, resType),
                           LAMBDA v : ~Skipped(g, resNS, resNames, v.Key)))

\* resTypes with service queried before endpoints
ResTypesServiceFirst == <<"configmap", "secret", "service", "endpoints">>

\* resTypes, the types the "all" case queries after pod and node
ResTypes == <<"configmap", "secret", "endpoints", "service">>

\* the loop over resTypes of the "all" case, from type i on; log is the
\* sequence of the types queried so far
RECURSIVE AllLoop(_, _, _, _, _, _, _)
AllLoop(g, rows, fails, resNames, i, datas, log) ==
    IF i > Len(ResTypes)
    THEN [err |-> "none", results |-> datas, log |-> log]
    ELSE LET value == getSingleResourceFromDatabase(g, rows, fails, g.Namespace,
                                                    resNames, ResTypes[i])
         IN  IF value.err # "none"
             THEN [err |-> value.err, results |-> <<>>,
                   log |-> Append(log, ResTypes[i])]
             ELSE AllLoop(g, rows, fails, resNames, i + 1,
                          datas \o value.results, Append(log, ResTypes[i]))

Logged(r, log) == [err |-> r.err, results |-> r.results, log |-> log]

\* QueryDataFromDatabase(resType, resNames) ([]dao.Meta, error), with the
\* sequence of the types it queried
QueryDataFromDatabase(g, rows, fails, resType, resNames) ==
    CASE resType = "pod" ->
            Logged(getPodsFromDatabase(g, rows, fails, g.Namespace, resNames),
                   <<"pod">>)
      [] resType = "node" ->
            Logged(getNodeFromDatabase(g, rows, fails, g.Namespace, resNames),
                   <<"node">>)
      [] resType \in {"configmap", "secret", "endpoints", "service"} ->
            Logged(getSingleResourceFromDatabase(g, rows, fails, g.Namespace,
                                                 resNames, resType),
                   <<resType>>)
      [] resType = "all" ->
            LET pods == getPodsFromDatabase(g, rows, fails, g.Namespace, resNames)
                node == getNodeFromDatabase(g, rows, fails, g.Namespace, resNames)
            IN  IF pods.err # "none"
                THEN Logged(QueryErr(pods.err), <<"pod">>)
                ELSE IF node.err # "none"
                THEN Logged(QueryErr(node.err), <<"pod", "node">>)
                ELSE AllLoop(g, rows, fails, resNames, 1,
                             pods.results \o node.results, <<"pod", "node">>)
      [] OTHER -> Logged(QueryErr("unrecognized"), <<>>)

-----------------------------------------------------------------------------
(* Validation of the command line.                                         *)

\* availableResources: the aliases and the type each stands for
availableResources ==
    [all |-> "all",
     po |-> "pod", pod |-> "pod", pods |-> "pod",
     svc |-> "service", service |-> "service", services |-> "service",
     secret |-> "secret", secrets |-> "secret",
     cm |-> "configmap", configmap |-> "configmap", configmaps |-> "configmap",
     ep |-> "endpoints", endpoint |-> "endpoints", endpoints |-> "endpoints"]

\* IsAvailableResources(rsT)
IsAvailableResources(rsT) == rsT \in DOMAIN availableResources

\* allowedFormats
allowedFormats == {"yaml", "json", "wide"}

\* IsAllowedFormat(oFormat)
IsAllowedFormat(oFormat) == oFormat \in allowedFormats

\* strings.ToLower leaving the format as it was given
ToLowerIdentity(f) == f

\* strings.ToLower on the formats of the model
ToLower(f) ==
    CASE f = "WIDE" -> "wide"
      [] f = "Json" -> "json"
      [] f = "YAML" -> "yaml"
      [] f = "XML" -> "xml"
      [] OTHER -> f

\* Validate checking the output format before the store
ValidateFormatFirst(g, a) ==
    LET g2 == IF g.OutputFormat # ""
              THEN [g EXCEPT !.OutputFormat = ToLower(g.OutputFormat)]
              ELSE g
    IN  IF Len(a) = 0
        THEN [err |-> "noType", g |-> g, opened |-> FALSE]
        ELSE IF ~IsAvailableResources(a[1])
        THEN [err |-> "unrecognized", g |-> g, opened |-> FALSE]
        ELSE IF g.OutputFormat # "" /\ ~IsAllowedFormat(g2.OutputFormat)
        THEN [err |-> "format", g |-> g2, opened |-> FALSE]
        ELSE IF ~g.pathExists
        THEN [err |-> "notExist", g |-> g2, opened |-> FALSE]
        ELSE IF ~g.dbOpens
        THEN [err |-> "initDB", g |-> g2, opened |-> FALSE]
        ELSE IF a[1] = "all" /\ Len(a) >= 2
        THEN [err |-> "onlyOne", g |-> g2, opened |-> TRUE]
        ELSE [err |-> "none", g |-> g2, opened |-> TRUE]

\* Validate(args): the error it returns ("none" for nil), the GetOptions it
\* leaves, and whether it opened the store
Validate(g, a) ==
    IF Len(a) = 0
    THEN [err |-> "noType", g |-> g, opened |-> FALSE]
    ELSE IF ~IsAvailableResources(a[1])
    THEN [err |-> "unrecognized", g |-> g, opened |-> FALSE]
    ELSE IF ~g.pathExists
    THEN [err |-> "notExist", g |-> g, opened |-> FALSE]
    ELSE IF ~g.dbOpens
    THEN [err |-> "initDB", g |-> g, opened |-> FALSE]
    ELSE LET g2 == IF g.OutputFormat # ""
                   THEN [g EXCEPT !.OutputFormat = ToLower(g.OutputFormat)]
                   ELSE g
         IN  IF g.OutputFormat # "" /\ ~IsAllowedFormat(g2.OutputFormat)
             THEN [err |-> "format", g |-> g2, opened |-> TRUE]
             ELSE IF a[1] = "all" /\ Len(a) >= 2
             THEN [err |-> "onlyOne", g |-> g2, opened |-> TRUE]
             ELSE [err |-> "none", g |-> g2, opened |-> TRUE]

-----------------------------------------------------------------------------
(* Typed reconstruction.                                                   *)

\* the zero metav1.ObjectMeta
ZeroMetadata == Metadata("", FALSE, {})

\* what decoding json.Marshal(value[k]) into a field of a fresh item gives:
\* the member, or the field's zero value when the map has no such member
\* (null decodes into nothing)
Section(value, k) ==
    IF k \in DOMAIN value
    THEN value[k]
    ELSE IF k = "metadata" THEN ZeroMetadata ELSE ""

\* an item of the given form ("v1" or "api") built from the map the record
\* was decoded into, with the body sections of its kind
Item(form, v, value, sections) ==
    [form |-> form, apiVersion |-> "v1", kind |-> v.Type,
     metadata |-> Section(value, "metadata"),
     body |-> [k \in sections |-> Section(value, k)]]

NoLists ==
    [pod |-> <<>>, service |-> <<>>, secret |-> <<>>, configmap |-> <<>>,
     endpoints |-> <<>>]

\* the loop of ParseMetaToV1List from record i on; value is the one map every
\* record is decoded into
RECURSIVE V1Loop(_, _, _, _)
V1Loop(recs, i, value, lists) ==
    IF i > Len(recs)
    THEN [err |-> "none", lists |-> lists]
    ELSE LET v == recs[i]
             u == UnmarshalMap(v.Value, value)
         IN  IF v.Type \notin {"pod", "service", "secret", "configmap", "endpoints"}
             THEN [err |-> "unrecognized", lists |-> NoLists]
             ELSE IF u.err
             THEN [err |-> "decode", lists |-> NoLists]
             ELSE LET item ==
                        CASE v.Type = "pod" -> Item("v1", v, u.m, {"spec", "status"})
                          [] v.Type = "service" -> Item("v1", v, u.m, {"spec", "status"})
                          [] v.Type = "secret" -> Item("v1", v, u.m, {"data", "type"})
                          [] v.Type = "configmap" -> Item("v1", v, u.m, {"data"})
                          [] v.Type = "endpoints" -> Item("v1", v, u.m, {"subsets"})
                  IN  V1Loop(recs, i + 1, u.m,
                             [lists EXCEPT ![v.Type] = Append(@, item)])

\* ParseMetaToV1List(results)
ParseMetaToV1List(recs) == V1Loop(recs, 1, NoFields, NoLists)

\* the loop of ParseMetaToAPIList from record i on
RECURSIVE APILoop(_, _, _, _)
APILoop(recs, i, value, lists) ==
    IF i > Len(recs)
    THEN [err |-> "none", lists |-> lists]
    ELSE LET v == recs[i]
             u == UnmarshalMap(v.Value, value)
         IN  IF v.Type \notin {"pod", "service", "secret", "configmap", "endpoints"}
             THEN [err |-> "unrecognized", lists |-> NoLists]
             ELSE IF u.err
             THEN [err |-> "decode", lists |-> NoLists]
             ELSE LET item ==
                        CASE v.Type = "pod" -> Item("api", v, u.m, {"spec", "status"})
                          [] v.Type = "service" -> Item("api", v, u.m, {"spec", "status"})
                          [] v.Type = "secret" -> Item("api", v, u.m, {"data", "type"})
                          [] v.Type = "configmap" -> Item("api", v, u.m, {"data"})
                          [] v.Type = "endpoints" -> Item("api", v, u.m, {"subsets"})
                  IN  APILoop(recs, i + 1, u.m,
                              [lists EXCEPT ![v.Type] = Append(@, item)])

\* ParseMetaToAPIList putting each pod in front of the pods before it
ParseMetaToAPIListNewestFirst(recs) ==
    LET r == APILoop(recs, 1, NoFields, NoLists)
        n == Len(r.lists.pod)
    IN  [r EXCEPT !.lists.pod = [i \in 1..n |-> r.lists.pod[n + 1 - i]]]

\* ParseMetaToAPIList(results)
ParseMetaToAPIList(recs) == APILoop(recs, 1, NoFields, NoLists)

-----------------------------------------------------------------------------
(* The renderer.  What is written is the sequence of the objects handed to *)
(* the printer.                                                            *)

\* PrintGeneric(printer, obj, out): a list object is written as a fresh
\* container of kind List and apiVersion v1 holding its items, any other
\* object as it is
PrintGeneric(obj) ==
    IF obj.isList
    THEN [isList |-> TRUE, kind |-> "List", apiVersion |-> "v1", items |-> obj.items]
    ELSE [isList |-> FALSE, kind |-> obj.kind, apiVersion |-> obj.apiVersion,
          items |-> obj.items]

\* PrintKind wrapping a single item into a container as well
PrintKindAlwaysList(st, items) ==
    IF Len(items) # 0
    THEN [list |-> st.list \o items,
          out |-> Append(st.out,
                    PrintGeneric([isList |-> TRUE, kind |-> "List",
                                  apiVersion |-> "v1", items |-> st.list \o items]))]
    ELSE st

\* one of the five blocks of JSONYamlPrint: st.list is the v1.List declared
\* at the head of the function, st.out what has been written
PrintKind(st, items) ==
    IF Len(items) # 0
    THEN IF Len(items) # 1
         THEN [list |-> st.list \o items,
               out |-> Append(st.out,
                         PrintGeneric([isList |-> TRUE, kind |-> "List",
                                       apiVersion |-> "v1",
                                       items |-> st.list \o items]))]
         ELSE [list |-> st.list,
               out |-> Append(st.out,
                         PrintGeneric([isList |-> FALSE, kind |-> items[1].kind,
                                       apiVersion |-> items[1].apiVersion,
                                       items |-> <<items[1]>>]))]
    ELSE st

\* JSONYamlPrint running the service block before the pod block
JSONYamlPrintServiceFirst(recs) ==
    LET p == ParseMetaToV1List(recs)
        s0 == [list |-> <<>>, out |-> <<>>]
        s1 == PrintKind(s0, p.lists.service)
        s2 == PrintKind(s1, p.lists.pod)
        s3 == PrintKind(s2, p.lists.secret)
        s4 == PrintKind(s3, p.lists.configmap)
        s5 == PrintKind(s4, p.lists.endpoints)
    IN  IF p.err # "none"
        THEN [err |-> p.err, out |-> <<>>]
        ELSE [err |-> "none", out |-> s5.out]

\* JSONYamlPrint(results, printer, out)
JSONYamlPrint(recs) ==
    LET p == ParseMetaToV1List(recs)
        s0 == [list |-> <<>>, out |-> <<>>]
        s1 == PrintKind(s0, p.lists.pod)
        s2 == PrintKind(s1, p.lists.service)
        s3 == PrintKind(s2, p.lists.secret)
        s4 == PrintKind(s3, p.lists.configmap)
        s5 == PrintKind(s4, p.lists.endpoints)
    IN  IF p.err # "none"
        THEN [err |-> p.err, out |-> <<>>]
        ELSE [err |-> "none", out |-> s5.out]

\* one of the five blocks of HumanReadablePrint: a table of the items, then
\* an empty line
PrintTable(out, items) ==
    IF Len(items) # 0
    THEN out \o <<[isList |-> TRUE, kind |-> "Table", apiVersion |-> "v1",
                   items |-> items],
                  [isList |-> FALSE, kind |-> "Newline", apiVersion |-> "",
                   items |-> <<>>]>>
    ELSE out

\* HumanReadablePrint(results, printer, out)
HumanReadablePrint(recs) ==
    LET p == ParseMetaToAPIList(recs)
        o1 == PrintTable(<<>>, p.lists.pod)
        o2 == PrintTable(o1, p.lists.service)
        o3 == PrintTable(o2, p.lists.secret)
        o4 == PrintTable(o3, p.lists.configmap)
        o5 == PrintTable(o4, p.lists.endpoints)
    IN  IF p.err # "none"
        THEN [err |-> p.err, out |-> <<>>]
        ELSE [err |-> "none", out |-> o5]

-----------------------------------------------------------------------------
(* The command: ExecuteGet, run after Validate has returned nil.           *)

\* the line ExecuteGet writes when there is nothing to print, for namespace ns
NoResourcesFound(ns) ==
    [isList |-> FALSE, kind |-> "No resources found", apiVersion |-> "",
     items |-> <<ns>>]

\* whether g.PrintFlags.ToPrinter() returns an error: there is a printer for
\* the formats Validate lets through
ToPrinterErr(oFormat) == oFormat # "" /\ ~IsAllowedFormat(oFormat)

\* ExecuteGet printing an empty result set like any other
ExecuteGetPrintsEmpty(g, rows, fails, a, sel) ==
    LET q == QueryDataFromDatabase(g, rows, fails, a[1], Tail(a))
        f == IF Len(sel) > 0
             THEN FilterSelector(q.results, sel)
             ELSE [outcome |-> "ok", results |-> q.results]
        tabular == g.OutputFormat = "" \/ g.OutputFormat = "wide"
        p == IF tabular THEN HumanReadablePrint(f.results) ELSE JSONYamlPrint(f.results)
        failed(e) == [err |-> e, path |-> "none", results |-> <<>>, out |-> <<>>]
    IN  IF q.err # "none" THEN failed(q.err)
        ELSE IF f.outcome = "panic" THEN failed("panic")
        ELSE IF f.outcome = "err" THEN failed("filter")
        ELSE IF ToPrinterErr(g.OutputFormat) THEN failed("printer")
        ELSE [err |-> p.err,
              path |-> IF tabular THEN "tabular" ELSE "structured",
              results |-> f.results, out |-> p.out]

\* ExecuteGet(args): the error it returns ("none" for nil, "panic" when the
\* process aborts), the path it took ("empty", "tabular", "structured";
\* "none" when it returned before printing), the records it had to print
\* and what it wrote
ExecuteGet(g, rows, fails, a, sel) ==
    LET q == QueryDataFromDatabase(g, rows, fails, a[1], Tail(a))
        f == IF Len(sel) > 0
             THEN FilterSelector(q.results, sel)
             ELSE [outcome |-> "ok", results |-> q.results]
        tabular == g.OutputFormat = "" \/ g.OutputFormat = "wide"
        p == IF tabular THEN HumanReadablePrint(f.results) ELSE JSONYamlPrint(f.results)
        failed(e) == [err |-> e, path |-> "none", results |-> <<>>, out |-> <<>>]
    IN  IF q.err # "none" THEN failed(q.err)
        ELSE IF f.outcome = "panic" THEN failed("panic")
        ELSE IF f.outcome = "err" THEN failed("filter")
        ELSE IF ToPrinterErr(g.OutputFormat) THEN failed("printer")
        ELSE IF Len(f.results) = 0
        THEN [err |-> "none", path |-> "empty", results |-> <<>>,
              out |-> <<NoResourcesFound(g.Namespace)>>]
        ELSE [err |-> p.err,
              path |-> IF tabular THEN "tabular" ELSE "structured",
              results |-> f.results, out |-> p.out]

-----------------------------------------------------------------------------
(* Specification of the selector parser: the expression is any string over *)
(* SelAlphabet of at most MaxSelLen characters.                            *)

Strings(alphabet, n) == UNION {[1..k -> alphabet] : k \in 0..n}

NoSplit == [err |-> FALSE, sels |-> <<>>]

NoFilter == [outcome |-> "none", results |-> <<>>]

NoValidate == [err |-> "none", opened |-> FALSE]

NoQuery == [err |-> "none", results |-> <<>>, log |-> <<>>]

NoPrint == [err |-> "none", out |-> <<>>]

NoParse == [v1 |-> [err |-> "none", lists |-> NoLists],
            api |-> [err |-> "none", lists |-> NoLists]]

NoExec == [err |-> "none", path |-> "none", results |-> <<>>, out |-> <<>>]

NsDefault == <<"d", "e", "f">>

\* NewGetOptions(), with a DataPath that exists and opens
DefaultOptions ==
    [Namespace |-> NsDefault, AllNamespace |-> FALSE, OutputFormat |-> "",
     pathExists |-> TRUE, dbOpens |-> TRUE]

InitSel ==
    /\ phase = "init"
    /\ selector \in Strings(SelAlphabet, MaxSelLen)
    /\ splitRet = NoSplit
    /\ data = <<>>
    /\ filterRet = NoFilter
    /\ store = <<>>
    /\ failing = {}
    /\ args = <<>>
    /\ opts = DefaultOptions
    /\ validateRet = NoValidate
    /\ queryRet = NoQuery
    /\ toPrint = <<>>
    /\ printRet = NoPrint
    /\ parseRet = NoParse
    /\ execRet = NoExec

SplitAct ==
    /\ phase = "init"
    /\ phase' = "split"
    /\ splitRet' = SplitSelectorParameters(selector)
    /\ UNCHANGED <<selector, data, filterRet, store, failing, args, opts, validateRet, queryRet, toPrint, printRet,
                   parseRet, execRet>>

NextSel == SplitAct

SpecSel == InitSel /\ [][NextSel]_vars

-----------------------------------------------------------------------------
(* Specification of the selector filter: up to MaxFilterData pod records   *)
(* of one namespace, each with one of FilterDocs as its document, and one  *)
(* of FilterSelectors as the expression.                                   *)

LA == <<"a">>
LAA == <<"a", "a">>

\* a document with metadata (named n) and a spec
DocWith(n, hasLabels, labels) ==
    JObject([k \in {"metadata", "spec"} |->
                IF k = "metadata" THEN Metadata(n, hasLabels, labels) ELSE "s1"])

FilterDocs ==
    { JInvalid,
      JObject([k \in {"spec"} |-> "s2"]),
      DocWith("m0", FALSE, {}),
      DocWith("m1", TRUE, {}),
      DocWith("m2", TRUE, {<<LA, LA>>}),
      DocWith("m3", TRUE, {<<LAA, LA>>}),
      DocWith("m4", TRUE, {<<LA, LA>>, <<LAA, LA>>}),
      DocWith("m5", TRUE, {<<LA, LA>>, <<LAA, LAA>>}) }

FilterSelectors ==
    { <<"a", "=", "a">>,
      <<"a", "=", "=", "a">>,
      <<"a", "!", "=", "a">>,
      <<"a", "a", "=", "=", "a">>,
      <<"a", "a", "!", "=", "a">>,
      <<"a", "=", "a", ",", "a", "a", "!", "=", "a">>,
      <<"a", "=", "a", "=", "a">>,
      <<"a">> }

\* the name of the i-th record
NameOf(i) == [j \in 1..i |-> "w"]

FilterInputs ==
    UNION { { [i \in 1..n |-> Meta(MkKey(NsDefault, "pod", NameOf(i)), "pod", d[i])] :
                d \in [1..n -> FilterDocs] } : n \in 0..MaxFilterData }

InitFilter ==
    /\ phase = "init"
    /\ selector \in FilterSelectors
    /\ splitRet = NoSplit
    /\ data \in FilterInputs
    /\ filterRet = NoFilter
    /\ store = <<>>
    /\ failing = {}
    /\ args = <<>>
    /\ opts = DefaultOptions
    /\ validateRet = NoValidate
    /\ queryRet = NoQuery
    /\ toPrint = <<>>
    /\ printRet = NoPrint
    /\ parseRet = NoParse
    /\ execRet = NoExec

FilterAct ==
    /\ phase = "init"
    /\ phase' = "filter"
    /\ filterRet' = FilterSelector(data, selector)
    /\ UNCHANGED <<selector, splitRet, data, store, failing, args, opts, validateRet, queryRet, toPrint, printRet,
                   parseRet, execRet>>

NextFilter == FilterAct

SpecFilter == InitFilter /\ [][NextFilter]_vars

-----------------------------------------------------------------------------
(* Specification of retrieval: the command line is validated and, when     *)
(* accepted, the store is queried.  The store holds up to MaxStore of the  *)
(* rows of Pool, in Pool's order.                                          *)

NsTest == <<"t">>

Row(ns, t, name, doc) == Meta(MkKey(ns, t, name), t, doc)

Pool ==
    << Row(NsDefault, "service", <<"w">>,
           JObject([metadata |-> Metadata("sv1", FALSE, {}), spec |-> "sp4"])),
       Row(NsDefault, "pod", <<"w">>,
           JObject([metadata |-> Metadata("p1", FALSE, {}), spec |-> "sp1",
                    status |-> "old"])),
       Row(NsDefault, "podstatus", <<"w">>,
           JObject([status |-> "new"])),
       Row(NsTest, "pod", <<"w", "1">>,
           JObject([metadata |-> Metadata("p2", FALSE, {}), spec |-> "sp2"])),
       Row(NsDefault, "pod", <<"x">>,
           JObject([metadata |-> Metadata("p3", FALSE, {}), spec |-> "sp3"])),
       Row(NsDefault, "endpoints", <<"x">>,
           JObject([metadata |-> Metadata("e1", FALSE, {}), subsets |-> "su1"])),
       Row(NsTest, "secret", <<"w">>,
           JObject([metadata |-> Metadata("s1", FALSE, {}), data |-> "d1",
                    type |-> "Opaque"])),
       Row(NsDefault, "node", <<"e">>,
           JObject([metadata |-> Metadata("n1", FALSE, {}), spec |-> "sp5"])),
       Row(NsDefault, "nodestatus", <<"e">>,
           JObject([status |-> "ready"])),
       Row(NsDefault, "configmap", <<"w">>,
           JObject([metadata |-> Metadata("c1", FALSE, {}), data |-> "d2"])),
       Row(NsTest, "service", <<"x">>,
           JObject([metadata |-> Metadata("sv2", FALSE, {}), spec |-> "sp6"])) >>

Stores ==
    { SelectSeq(Pool, LAMBDA r : \E i \in S : Pool[i] = r) :
        S \in { T \in SUBSET (1..Len(Pool)) : Cardinality(T) <= MaxStore } }

\* the resource types given on the command line
TypeInputs == (DOMAIN availableResources) \cup {"node", "widget"}

\* the names given on the command line
NameInputs ==
    { <<>>,
      << <<"w">> >>,
      << <<"p", "o", "d">> >>,
      << <<"x">>, <<"w", "1">> >> }

\* the store operations that fail
FailingInputs == { {}, {"secret"}, {"lookup"} }

InitQuery ==
    /\ phase = "init"
    /\ selector = <<>>
    /\ splitRet = NoSplit
    /\ data = <<>>
    /\ filterRet = NoFilter
    /\ store \in Stores
    /\ failing \in FailingInputs
    /\ \E t \in TypeInputs, ns \in NameInputs : args = <<t>> \o ns
    /\ \E all \in BOOLEAN, ns \in {NsDefault, NsTest} :
          opts = [DefaultOptions EXCEPT !.AllNamespace = all, !.Namespace = ns]
    /\ validateRet = NoValidate
    /\ queryRet = NoQuery
    /\ toPrint = <<>>
    /\ printRet = NoPrint
    /\ parseRet = NoParse
    /\ execRet = NoExec

ValidateAct ==
    /\ phase = "init"
    /\ phase' = "validated"
    /\ LET r == Validate(opts, args)
       IN  /\ validateRet' = [err |-> r.err, opened |-> r.opened]
           /\ opts' = r.g
    /\ UNCHANGED <<selector, splitRet, data, filterRet, store, failing, args, queryRet,
                   toPrint, printRet,
                   parseRet, execRet>>

QueryAct ==
    /\ phase = "validated"
    /\ validateRet.err = "none"
    /\ phase' = "queried"
    /\ queryRet' = QueryDataFromDatabase(opts, store, failing, args[1], Tail(args))
    /\ UNCHANGED <<selector, splitRet, data, filterRet, store, failing, args, opts,
                   validateRet, toPrint, printRet,
                   parseRet, execRet>>

NextQuery == ValidateAct \/ QueryAct

SpecQuery == InitQuery /\ [][NextQuery]_vars

-----------------------------------------------------------------------------
(* Specification of the renderer: up to MaxPrint records of the types      *)
(* retrieval returns, the i-th with metadata named Names[i], are rendered  *)
(* in the structured or in the tabular path, or reconstructed by both      *)
(* passes.                                                                 *)

Names == <<"m1", "m2", "m3", "m4", "m5", "m6", "m7", "m8">>
Values == <<"v1", "v2", "v3", "v4", "v5", "v6", "v7", "v8">>

\* the body sections of the documents of a type
SectionsOf(t) ==
    CASE t \in {"pod", "service", "node"} -> {"spec", "status"}
      [] t = "secret" -> {"data", "type"}
      [] t = "configmap" -> {"data"}
      [] t = "endpoints" -> {"subsets"}

\* the complete document of the i-th record, of type t
FullDoc(t, i) ==
    JObject([k \in SectionsOf(t) \cup {"metadata"} |->
                IF k = "metadata" THEN Metadata(Names[i], FALSE, {}) ELSE Values[i]])

\* a document with metadata only
BareDoc(i) == JObject([k \in {"metadata"} |-> Metadata(Names[i], FALSE, {})])

\* the kinds of record a list is made of: a type and a document variant
PrintChoices ==
    ({"pod", "service", "secret", "configmap", "endpoints", "node"} \X {"full"})
    \cup ({"pod", "service"} \X {"bare"})
    \cup {<<"pod", "invalid">>}

\* the i-th record, of choice c
PrintRecord(c, i) ==
    Meta(MkKey(NsDefault, c[1], NameOf(i)), c[1],
         CASE c[2] = "full" -> FullDoc(c[1], i)
           [] c[2] = "bare" -> BareDoc(i)
           [] OTHER -> JInvalid)

InitPrint ==
    /\ phase = "init"
    /\ selector = <<>>
    /\ splitRet = NoSplit
    /\ data = <<>>
    /\ filterRet = NoFilter
    /\ store = <<>>
    /\ failing = {}
    /\ args = <<>>
    /\ opts = DefaultOptions
    /\ validateRet = NoValidate
    /\ queryRet = NoQuery
    /\ \E n \in 1..MaxPrint : \E cs \in [1..n -> PrintChoices] :
          toPrint = [i \in 1..n |-> PrintRecord(cs[i], i)]
    /\ printRet = NoPrint
    /\ parseRet = NoParse
    /\ execRet = NoExec

JSONYamlPrintAct ==
    /\ phase = "init"
    /\ phase' = "structured"
    /\ printRet' = JSONYamlPrint(toPrint)
    /\ UNCHANGED <<selector, splitRet, data, filterRet, store, failing, args, opts,
                   validateRet, queryRet, toPrint,
                   parseRet, execRet>>

HumanReadablePrintAct ==
    /\ phase = "init"
    /\ phase' = "tabular"
    /\ printRet' = HumanReadablePrint(toPrint)
    /\ UNCHANGED <<selector, splitRet, data, filterRet, store, failing, args, opts,
                   validateRet, queryRet, toPrint,
                   parseRet, execRet>>

\* the two reconstruction passes over the same records
ParseAct ==
    /\ phase = "init"
    /\ phase' = "parsed"
    /\ parseRet' = [v1 |-> ParseMetaToV1List(toPrint),
                    api |-> ParseMetaToAPIList(toPrint)]
    /\ UNCHANGED <<selector, splitRet, data, filterRet, store, failing, args, opts,
                   validateRet, queryRet, toPrint, printRet, execRet>>

NextPrint == JSONYamlPrintAct \/ HumanReadablePrintAct \/ ParseAct

SpecPrint == InitPrint /\ [][NextPrint]_vars

-----------------------------------------------------------------------------
(* Specification of the command: Validate, then ExecuteGet when Validate   *)
(* returned nil (NewCmdDebugGet's Run stops at the first error).  The      *)
(* store holds at most MaxStore rows of GetPool.                           *)

GetPool ==
    << Row(NsDefault, "service", <<"w">>,
           JObject([metadata |-> Metadata("sv1", FALSE, {}), spec |-> "sp4"])),
       Row(NsDefault, "pod", <<"w">>,
           JObject([metadata |-> Metadata("p1", TRUE, {<<LA, LA>>}), spec |-> "sp1",
                    status |-> "old"])),
       Row(NsDefault, "podstatus", <<"w">>,
           JObject([status |-> "new"])),
       Row(NsTest, "pod", <<"w", "1">>,
           JObject([metadata |-> Metadata("p2", FALSE, {}), spec |-> "sp2"])),
       Row(NsDefault, "node", <<"e">>,
           JObject([metadata |-> Metadata("n1", FALSE, {}), spec |-> "sp5"])),
       Row(NsDefault, "configmap", <<"w">>,
           JObject([metadata |-> Metadata("c1", TRUE, {<<LA, LA>>}), data |-> "d2"])) >>

GetStores ==
    { SelectSeq(GetPool, LAMBDA r : \E i \in S : GetPool[i] = r) :
        S \in { T \in SUBSET (1..Len(GetPool)) : Cardinality(T) <= MaxStore } }

\* the command lines: no argument at all, or a type and names
GetArgs ==
    {<<>>} \cup
    { <<t>> \o names :
        t \in {"pod", "pods", "service", "configmap", "all", "widget"},
        names \in { <<>>, << <<"w">> >> } }

\* the values of the output flag
FormatInputs == {"", "wide", "json", "yaml", "Json", "WIDE", "xml", "XML"}

\* the values of the selector flag
GetSelectors == { <<>>, <<"a", "=", "a">>, <<"a", "!", "=", "a">> }

InitGet ==
    /\ phase = "init"
    /\ selector \in GetSelectors
    /\ splitRet = NoSplit
    /\ data = <<>>
    /\ filterRet = NoFilter
    /\ store \in GetStores
    /\ failing \in { {}, {"pod"} }
    /\ args \in GetArgs
    /\ \E all \in BOOLEAN, f \in FormatInputs, pe \in BOOLEAN, op \in BOOLEAN :
          opts = [DefaultOptions EXCEPT !.AllNamespace = all, !.OutputFormat = f,
                                        !.pathExists = pe, !.dbOpens = op]
    /\ validateRet = NoValidate
    /\ queryRet = NoQuery
    /\ toPrint = <<>>
    /\ printRet = NoPrint
    /\ parseRet = NoParse
    /\ execRet = NoExec

ExecuteGetAct ==
    /\ phase = "validated"
    /\ validateRet.err = "none"
    /\ phase' = "executed"
    /\ execRet' = ExecuteGet(opts, store, failing, args, selector)
    /\ UNCHANGED <<selector, splitRet, data, filterRet, store, failing, args, opts,
                   validateRet, queryRet, toPrint, printRet, parseRet>>

NextGet == ValidateAct \/ ExecuteGetAct

SpecGet == InitGet /\ [][NextGet]_vars

-----------------------------------------------------------------------------
(* Claims about the selector parser (SpecSel).                             *)

\* the terms of an expression
Terms(s) == Split(s, Comma)

\* the operator a term is parsed with: the first of "==", "!=", "=" that it
\* contains; <<>> when it contains none
FirstOp(t) ==
    IF Contains(t, OpEqEq) THEN OpEqEq
    ELSE IF Contains(t, OpNotEq) THEN OpNotEq
    ELSE IF Contains(t, OpEq) THEN OpEq
    ELSE <<>>

\* what follows the leftmost occurrence of op in t
AfterOp(t, op) == SubSeq(t, Index(t, op) + Len(op), Len(t))

\* what precedes the leftmost occurrence of op in t
BeforeOp(t, op) == SubSeq(t, 1, Index(t, op) - 1)

\* the operator occurs again after its leftmost occurrence
OpRepeats(t) == FirstOp(t) # <<>> /\ Contains(AfterOp(t, FirstOp(t)), FirstOp(t))

OpTerms(s) == SelectSeq(Terms(s), LAMBDA t : FirstOp(t) # <<>>)

\* the term has an operator and does not split on it into exactly two
\* non-empty sides
NotTwoNonEmptySides(t) ==
    /\ FirstOp(t) # <<>>
    /\ LET labs == Split(t, FirstOp(t))
       IN  ~(Len(labs) = 2 /\ labs[1] # <<>> /\ labs[2] # <<>>)

\* C6 as stated: the parse fails whenever a term with an operator does not
\* split into exactly two non-empty sides (so "a=" and "=a" are rejected).
C6_RejectsEmptySides ==
    phase = "split" =>
        ((\E i \in 1..Len(Terms(selector)) : NotTwoNonEmptySides(Terms(selector)[i]))
            => splitRet.err)

\* C6 (amended): the expression is split on ","; each term is parsed with the
\* first of "==", "!=", "=" it contains; the parse fails exactly when the
\* operator of some term occurs in it again after its leftmost occurrence,
\* and otherwise yields, in order, one clause per term with an operator:
\* Key the text before the operator, Value the text after it (either may be
\* empty), Exist true for "==" and "=", false for "!=".
C6_SplitOnFirstOperator ==
    phase = "split" =>
        /\ splitRet.err <=>
              \E i \in 1..Len(Terms(selector)) : OpRepeats(Terms(selector)[i])
        /\ splitRet.err => splitRet.sels = <<>>
        /\ ~splitRet.err =>
              /\ Len(splitRet.sels) = Len(OpTerms(selector))
              /\ \A i \in 1..Len(splitRet.sels) :
                    LET t == OpTerms(selector)[i]
                    IN  /\ splitRet.sels[i].Key = BeforeOp(t, FirstOp(t))
                        /\ splitRet.sels[i].Value = AfterOp(t, FirstOp(t))
                        /\ splitRet.sels[i].Exist = (FirstOp(t) # OpNotEq)

\* "=a,a!=" is parsed into two clauses with an empty key and an empty value
C6_Witness ==
    /\ phase = "split"
    /\ selector = <<"=", "a", ",", "a", "!", "=">>
    /\ ~splitRet.err
    /\ splitRet.sels = <<Selector(<<>>, <<"a">>, TRUE), Selector(<<"a">>, <<>>, FALSE)>>

-----------------------------------------------------------------------------
(* Claims about the selector filter (SpecFilter).                          *)

\* the record is among the records returned
Kept(v) == \E j \in 1..Len(filterRet.results) : filterRet.results[j] = v

\* the record's own document has a metadata object
HasMetadata(v) == v.Value.kind = "object" /\ "metadata" \in DOMAIN v.Value.fields

\* the record's own document has a metadata.labels section
HasLabels(v) == HasMetadata(v) /\ v.Value.fields["metadata"].hasLabels

\* the labels of the record's own document
LabelsOf(v) == IF HasLabels(v) THEN v.Value.fields["metadata"].labels ELSE {}

\* the clause evaluates true on the labels
ClauseTrue(labels, sl) ==
    IF sl.Exist
    THEN \E p \in labels : p[1] = sl.Key /\ p[2] = sl.Value
    ELSE \A p \in labels : p[1] = sl.Key => p[2] # sl.Value

\* the keep rule: no labels section, or every clause true
KeepRule(v, sLabels) ==
    \/ ~HasLabels(v)
    \/ \A i \in 1..Len(sLabels) : ClauseTrue(LabelsOf(v), sLabels[i])

ParsedSelector == SplitSelectorParameters(selector)

\* C4: when the expression parses and every document decodes, FilterSelector
\* returns, in input order, exactly the records that have no metadata.labels
\* section or on whose labels every clause is true.
C4_KeptIffNoLabelsOrAllClauses ==
    (/\ phase = "filter"
     /\ ~ParsedSelector.err
     /\ \A i \in 1..Len(data) : data[i].Value.kind = "object")
    => /\ filterRet.outcome = "ok"
       /\ filterRet.results =
            SelectSeq(data, LAMBDA v : KeepRule(v, ParsedSelector.sels))

\* the expression is a single clause
SingleClause == ~ParsedSelector.err /\ Len(ParsedSelector.sels) = 1

\* the label key is absent from the labels
KeyAbsent(labels, key) == \A p \in labels : p[1] # key

\* C5 as stated: with a single clause K op V, a returned filtering keeps
\* every record in which label K is absent when op is "!=", and drops it
\* when op is "==".
C5_AbsentKeyDroppedByEquals ==
    (phase = "filter" /\ SingleClause /\ filterRet.outcome = "ok")
    => \A i \in 1..Len(data) :
          KeyAbsent(LabelsOf(data[i]), ParsedSelector.sels[1].Key)
            => (Kept(data[i]) <=> ~ParsedSelector.sels[1].Exist)

\* C5 (amended): with a single clause K op V, a returned filtering keeps a
\* record whose metadata has a labels section without K when op is "!=" and
\* drops it when op is "==" or "="; a record whose metadata has no labels
\* section is kept under either clause.
C5_AbsentKeyInLabels ==
    (phase = "filter" /\ SingleClause /\ filterRet.outcome = "ok")
    => \A i \in 1..Len(data) :
          /\ (HasLabels(data[i])
                /\ KeyAbsent(LabelsOf(data[i]), ParsedSelector.sels[1].Key))
              => (Kept(data[i]) <=> ~ParsedSelector.sels[1].Exist)
          /\ (HasMetadata(data[i]) /\ ~HasLabels(data[i])) => Kept(data[i])

\* under "aa==a" a record labelled only a=a is dropped and a record without
\* labels is kept
C5_Witness ==
    /\ phase = "filter"
    /\ selector = <<"a", "a", "=", "=", "a">>
    /\ Len(data) = 2
    /\ data[1].Value = DocWith("m2", TRUE, {<<LA, LA>>})
    /\ data[2].Value = DocWith("m0", FALSE, {})
    /\ filterRet.outcome = "ok"
    /\ filterRet.results = <<data[2]>>

\* C19: FilterSelector returns the filtered records or an error and no
\* record, and never aborts the process; when it returns records, a record
\* whose document is an object without metadata is among them, whatever
\* records come before it.
C19_FilterReturnsNormally ==
    phase = "filter" =>
        /\ filterRet.outcome \in {"ok", "err"}
        /\ filterRet.outcome = "err" => filterRet.results = <<>>
        /\ filterRet.outcome = "ok" =>
              \A i \in 1..Len(data) :
                 (data[i].Value.kind = "object" /\ ~HasMetadata(data[i]))
                    => Kept(data[i])

-----------------------------------------------------------------------------
(* Claims about retrieval (SpecQuery).                                     *)

\* the key lies in the configured namespace: it starts with "<namespace>/"
InNamespace(key) == OccursAt(key, opts.Namespace \o ResourceSep, 1)

\* some given name occurs in the key, or no name is given
NameMatches(key) ==
    Len(args) = 1 \/ \E i \in 2..Len(args) : \E p \in 1..Len(key) : OccursAt(key, args[i], p)

\* the row passes the namespace and name tests of the command line
Selected(r) == (opts.AllNamespace \/ InNamespace(r.Key)) /\ NameMatches(r.Key)

\* the types whose rows the command line asks for
QueriedTypes ==
    IF args[1] = "all"
    THEN {"pod", "node", "configmap", "secret", "endpoints", "service"}
    ELSE IF args[1] \in DOMAIN availableResources
    THEN {availableResources[args[1]]}
    ELSE {}

\* C1: once Validate has accepted the resource type, QueryDataFromDatabase
\* with the same type does not fail for an unrecognized type, and the records
\* it returns are of the canonical type of the alias.
C1_AliasesResolved ==
    phase = "queried" =>
        /\ queryRet.err # "unrecognized"
        /\ \A j \in 1..Len(queryRet.results) : queryRet.results[j].Type \in QueriedTypes

\* the type of the status rows of a base type
StatusTypeOf(t) == IF t = "pod" THEN "podstatus" ELSE "nodestatus"

\* s is the status row of base row v: same namespace and name, status type
IsStatusRowOf(s, v) ==
    /\ s.Type = StatusTypeOf(v.Type)
    /\ s.Key = MkKey(Split(v.Key, ResourceSep)[1], s.Type, Split(v.Key, ResourceSep)[3])

\* C2: when no store operation fails, every selected pod or node row that has
\* a status row is returned with the status of the status document, and with
\* its own metadata and spec.
C2_StatusMerged ==
    (phase = "queried" /\ args[1] \in {"pod", "all"} /\ failing = {})
    => \A i \in 1..Len(store) :
          (/\ store[i].Type \in {"pod", "node"} \cap QueriedTypes
           /\ Selected(store[i])
           /\ \E k \in 1..Len(store) : IsStatusRowOf(store[k], store[i]))
          => /\ queryRet.err = "none"
             /\ \E j \in 1..Len(queryRet.results) :
                  LET r == queryRet.results[j]
                      s == CHOOSE s \in {store[k] : k \in 1..Len(store)} :
                               IsStatusRowOf(s, store[i])
                  IN  /\ r.Key = store[i].Key
                      /\ r.Type = store[i].Type
                      /\ r.Value.kind = "object"
                      /\ r.Value.fields["status"] = s.Value.fields["status"]
                      /\ r.Value.fields["metadata"] = store[i].Value.fields["metadata"]
                      /\ r.Value.fields["spec"] = store[i].Value.fields["spec"]

\* C3: a retrieval that succeeds returns only rows of the queried types that
\* lie in the configured namespace, unless AllNamespace is set; and it
\* returns every row of the queried types that passes the name test and lies
\* in the configured namespace, or in any namespace when AllNamespace is set.
\* A retrieval that fails returns no rows.
C3_NamespaceScoping ==
    phase = "queried" =>
        /\ queryRet.err # "none" => queryRet.results = <<>>
        /\ queryRet.err = "none" =>
            /\ \A j \in 1..Len(queryRet.results) :
                  /\ queryRet.results[j].Type \in QueriedTypes
                  /\ opts.AllNamespace \/ InNamespace(queryRet.results[j].Key)
            /\ \A i \in 1..Len(store) :
                  (store[i].Type \in QueriedTypes /\ Selected(store[i]))
                  => \E j \in 1..Len(queryRet.results) :
                        queryRet.results[j].Key = store[i].Key

\* "get pod" in namespace def, with a pod of namespace t and a pod of def in
\* the store: only the pod of def is returned
C3_Witness ==
    /\ phase = "queried"
    /\ args = <<"pod">>
    /\ opts.Namespace = NsDefault
    /\ ~opts.AllNamespace
    /\ store = <<Pool[4], Pool[5]>>
    /\ queryRet.err = "none"
    /\ queryRet.results = <<Pool[5]>>

\* the row is among the records returned
Retrieves(r) == \E j \in 1..Len(queryRet.results) : queryRet.results[j].Key = r.Key

\* C14: a retrieval that succeeds returns, of the rows of the queried types
\* that lie in the configured namespace (or anywhere with AllNamespace),
\* every one when no name is given, and otherwise exactly those whose whole
\* key contains one of the names as a substring.
C14_NamesMatchBySubstring ==
    (phase = "queried" /\ queryRet.err = "none") =>
        \A i \in 1..Len(store) :
            (/\ store[i].Type \in QueriedTypes
             /\ opts.AllNamespace \/ InNamespace(store[i].Key))
            => /\ Len(args) = 1 => Retrieves(store[i])
               /\ Len(args) > 1 =>
                     (Retrieves(store[i])
                        <=> \E n \in 2..Len(args) :
                               \E p \in 1..Len(store[i].Key) :
                                  OccursAt(store[i].Key, args[n], p))

\* C14 witness: "get pod w" over all namespaces returns the pod named w1 and
\* not the pod named x.
C14_Witness ==
    /\ phase = "queried"
    /\ args = <<"pod", <<"w">>>>
    /\ opts.AllNamespace
    /\ store = <<Pool[4], Pool[5]>>
    /\ queryRet.err = "none"
    /\ queryRet.results = <<Pool[4]>>

\* the pod and node rows the command line selects
SelectedBases ==
    { i \in 1..Len(store) :
        store[i].Type \in {"pod", "node"} \cap QueriedTypes /\ Selected(store[i]) }

\* the row has no status row
Unmerged(i) == ~\E k \in 1..Len(store) : IsStatusRowOf(store[k], store[i])

\* C15: a retrieval that succeeds returns every selected pod or node row
\* that has no status row as it is stored, key, type and value; and when no
\* store operation fails and no selected pod or node row has a status row,
\* the retrieval succeeds.
C15_UnmergedBaseAsStored ==
    (phase = "queried" /\ args[1] \in {"pod", "all"}) =>
        /\ queryRet.err = "none" =>
              \A i \in SelectedBases :
                 Unmerged(i) =>
                    \E j \in 1..Len(queryRet.results) :
                       /\ queryRet.results[j].Key = store[i].Key
                       /\ queryRet.results[j].Type = store[i].Type
                       /\ queryRet.results[j].Value = store[i].Value
        /\ (failing = {} /\ \A i \in SelectedBases : Unmerged(i)) =>
              queryRet.err = "none"

\* C15 witness: "get all" with a node row and a pod row, neither with a
\* status row, returns both as stored.
C15_Witness ==
    /\ phase = "queried"
    /\ args = <<"all">>
    /\ store = <<Pool[5], Pool[8]>>
    /\ queryRet.err = "none"
    /\ queryRet.results = <<Pool[5], Pool[8]>>

\* the order the "all" case queries the types in
AllOrder == <<"pod", "node", "configmap", "secret", "endpoints", "service">>

\* the position of a type in AllOrder
Rank(t) == CHOOSE i \in 1..Len(AllOrder) : AllOrder[i] = t

\* C10: retrieval for "all" queries pod, node, configmap, secret, endpoints,
\* service in that order and stops at the first query that fails; when all
\* succeed the result is the selected rows grouped by type in that order,
\* each group in scan order; when one fails the result is empty.
C10_AllQueriesInOrder ==
    (phase = "queried" /\ args[1] = "all") =>
        /\ Len(queryRet.log) >= 1
        /\ queryRet.log = SubSeq(AllOrder, 1, Len(queryRet.log))
        /\ queryRet.log[Len(queryRet.log)] \in failing => queryRet.err # "none"
        /\ \A i \in 1..Len(queryRet.log) - 1 : queryRet.log[i] \notin failing
        /\ queryRet.err # "none" => queryRet.results = <<>>
        /\ queryRet.err = "none" =>
            /\ queryRet.log = AllOrder
            /\ \A j \in 1..Len(queryRet.results) - 1 :
                  Rank(queryRet.results[j].Type) <= Rank(queryRet.results[j + 1].Type)
            /\ \A t \in QueriedTypes :
                  SelectSeq(queryRet.results, LAMBDA r : r.Type = t)
                    = SelectSeq(store, LAMBDA r : r.Type = t /\ Selected(r))

\* "get all" on a store that holds, in scan order, a service, a pod and a
\* configmap returns the pod, the configmap and the service
C10_Witness ==
    /\ phase = "queried"
    /\ args = <<"all">>
    /\ opts.Namespace = NsDefault
    /\ store = <<Pool[1], Pool[5], Pool[10]>>
    /\ queryRet.err = "none"
    /\ queryRet.log = AllOrder
    /\ queryRet.results = <<Pool[5], Pool[10], Pool[1]>>

-----------------------------------------------------------------------------
(* Claims about reconstruction and rendering (SpecPrint).                  *)

\* the six kinds of resource
SixKinds == {"pod", "service", "secret", "configmap", "endpoints", "node"}

\* the kinds the renderer writes
FiveKinds == {"pod", "service", "secret", "configmap", "endpoints"}

\* C7: reconstruction fails with an unrecognized-type error exactly when
\* some record is of none of the six kinds; records of the six kinds, node
\* records included, are reconstructed without a type error.
C7_SixKindsReconstructed ==
    phase \in {"structured", "tabular"} =>
        (printRet.err = "unrecognized"
            <=> \E i \in 1..Len(toPrint) : toPrint[i].Type \notin SixKinds)

\* the names of the metadata of the records of type k, in retrieval order
NamesOfType(k) ==
    LET rs == SelectSeq(toPrint, LAMBDA v : v.Type = k)
    IN  [i \in 1..Len(rs) |-> rs[i].Value.fields["metadata"].name]

\* the names of the metadata of the items
NamesOfItems(items) == [i \in 1..Len(items) |-> items[i].metadata.name]

\* the places <<o, i>> of the items written
Places == { <<o, i>> \in (1..Len(printRet.out)) \X (1..MaxPrint + 1) :
                i <= Len(printRet.out[o].items) }

\* C8: in the structured path every List container written holds the items
\* of one kind, all of them, each once, in retrieval order, and no item is
\* written twice.
C8_ListHoldsOneKind ==
    (phase = "structured" /\ printRet.err = "none") =>
        /\ \A o \in 1..Len(printRet.out) :
              printRet.out[o].isList =>
                \E k \in FiveKinds :
                    /\ \A i \in 1..Len(printRet.out[o].items) :
                          printRet.out[o].items[i].kind = k
                    /\ NamesOfItems(printRet.out[o].items) = NamesOfType(k)
        /\ \A p, q \in Places :
              printRet.out[p[1]].items[p[2]] = printRet.out[q[1]].items[q[2]] => p = q

\* the number of records of type k
CountType(k) == Len(SelectSeq(toPrint, LAMBDA v : v.Type = k))

\* the outputs that are a standalone object of kind k
Standalone(k) ==
    { o \in 1..Len(printRet.out) :
        ~printRet.out[o].isList /\ printRet.out[o].kind = k }

\* the outputs that are a container holding an item of kind k
ContainersWith(k) ==
    { o \in 1..Len(printRet.out) :
        /\ printRet.out[o].isList
        /\ \E i \in 1..Len(printRet.out[o].items) : printRet.out[o].items[i].kind = k }

\* C9: in the structured path a kind with exactly one item is written as one
\* standalone object and in no container; a kind with two or more items is
\* written in a container of kind List and apiVersion v1 that holds all its
\* items, and never standalone.
C9_SingleStandaloneManyListed ==
    (phase = "structured" /\ printRet.err = "none") =>
        \A k \in FiveKinds :
            /\ CountType(k) = 1 =>
                  /\ Cardinality(Standalone(k)) = 1
                  /\ ContainersWith(k) = {}
                  /\ \A o \in Standalone(k) :
                        NamesOfItems(printRet.out[o].items) = NamesOfType(k)
            /\ CountType(k) >= 2 =>
                  /\ Standalone(k) = {}
                  /\ \E o \in ContainersWith(k) :
                        /\ printRet.out[o].kind = "List"
                        /\ printRet.out[o].apiVersion = "v1"
                        /\ NamesOfItems(SelectSeq(printRet.out[o].items,
                                                  LAMBDA it : it.kind = k))
                             = NamesOfType(k)

\* a pod and two services: the pod is written standalone, then one List
\* with the two services
C9_Witness ==
    /\ phase = "structured"
    /\ printRet.err = "none"
    /\ Len(toPrint) = 3
    /\ toPrint[1].Type = "service" /\ toPrint[2].Type = "pod" /\ toPrint[3].Type = "service"
    /\ Len(printRet.out) = 2
    /\ ~printRet.out[1].isList /\ printRet.out[1].kind = "pod"
    /\ printRet.out[2].isList /\ printRet.out[2].kind = "List"
    /\ NamesOfItems(printRet.out[2].items) = <<"m1", "m3">>

\* the order in which the renderer's blocks run
RenderOrder == <<"pod", "service", "secret", "configmap", "endpoints">>

RenderRank(k) == CHOOSE r \in 1..Len(RenderOrder) : RenderOrder[r] = k

\* the outputs that carry items: a table, a container or a standalone object
\* (the empty line after a table carries none)
Blocks == SelectSeq(printRet.out, LAMBDA o : Len(o.items) > 0)

\* the kind a block was written for: the kind of the items it ends with
BlockKind(o) == o.items[Len(o.items)].kind

\* C11: in the structured and in the tabular path alike, the blocks written
\* are those of the kinds that have at least one record, one block per kind,
\* in the order pod, service, secret, configmap, endpoints whatever the order
\* of the records; a kind without records leaves no output and no item.
C11_KindsInFixedOrder ==
    (phase \in {"structured", "tabular"} /\ printRet.err = "none") =>
        /\ \A o, p \in 1..Len(Blocks) :
              o < p => RenderRank(BlockKind(Blocks[o])) < RenderRank(BlockKind(Blocks[p]))
        /\ {BlockKind(Blocks[o]) : o \in 1..Len(Blocks)}
              = {k \in FiveKinds : CountType(k) > 0}
        /\ \A k \in FiveKinds :
              CountType(k) = 0 =>
                 \A o \in 1..Len(printRet.out) :
                    /\ printRet.out[o].kind # k
                    /\ \A i \in 1..Len(printRet.out[o].items) :
                          printRet.out[o].items[i].kind # k
        /\ phase = "tabular" =>
              Len(printRet.out) = 2 * Cardinality({k \in FiveKinds : CountType(k) > 0})

\* C11 witness: an endpoints record, a service record and a pod record, in
\* that order, are written as tables in the order pod, service, endpoints.
C11_Witness ==
    /\ phase = "tabular"
    /\ printRet.err = "none"
    /\ Len(toPrint) = 3
    /\ toPrint[1].Type = "endpoints"
    /\ toPrint[2].Type = "service"
    /\ toPrint[3].Type = "pod"
    /\ Len(Blocks) = 3
    /\ BlockKind(Blocks[1]) = "pod"
    /\ BlockKind(Blocks[2]) = "service"
    /\ BlockKind(Blocks[3]) = "endpoints"

\* the records of type k, in input order
RecordsOfType(k) == SelectSeq(toPrint, LAMBDA v : v.Type = k)

OwnSection(v, k) ==
    IF k \in DOMAIN v.Value.fields
    THEN v.Value.fields[k]
    ELSE IF k = "metadata" THEN ZeroMetadata ELSE ""

\* the item was built from the document of record v and nothing else
FromOwnDocument(item, v) ==
    /\ item.metadata = OwnSection(v, "metadata")
    /\ \A k \in DOMAIN item.body : item.body[k] = OwnSection(v, k)

\* C18: in both passes, the metadata and the body sections of every item are
\* those of the document of the record it was built from; a section the
\* document lacks is empty in the item.
C18_ItemFromOwnDocument ==
    (phase = "parsed" /\ parseRet.v1.err = "none" /\ parseRet.api.err = "none") =>
        \A k \in FiveKinds :
           \A i \in 1..CountType(k) :
              /\ i <= Len(parseRet.v1.lists[k])
                    => FromOwnDocument(parseRet.v1.lists[k][i], RecordsOfType(k)[i])
              /\ i <= Len(parseRet.api.lists[k])
                    => FromOwnDocument(parseRet.api.lists[k][i], RecordsOfType(k)[i])

-----------------------------------------------------------------------------
(* Claims about the command (SpecGet).                                     *)

\* the lowercase form of a value of the output flag
LowerCaseOf(f) ==
    CASE f \in {"wide", "WIDE"} -> "wide"
      [] f \in {"json", "Json"} -> "json"
      [] f \in {"yaml", "YAML"} -> "yaml"
      [] f \in {"xml", "XML"} -> "xml"
      [] OTHER -> f

\* the formats the command prints in
RecognizedFormats == {"", "wide", "json", "yaml"}

\* the checks Validate makes before it looks at the format all pass
StoreChecksPass ==
    /\ Len(args) > 0
    /\ args[1] \in DOMAIN availableResources
    /\ opts.pathExists
    /\ opts.dbOpens

\* C12: Validate lowercases the output format and then checks it: a format
\* whose lowercase form is none of "", wide, json, yaml makes Validate fail,
\* with the invalid-format error when the earlier checks pass, and ExecuteGet
\* never runs after a failed Validate; a format whose lowercase form is one
\* of the four is stored lowercased and is no format error.  ExecuteGet
\* prints a non-empty result set in the tabular path for "" and wide and in
\* the structured path for json and yaml.
C12_FormatCheckedThenRouted ==
    [][ /\ (phase = "init" /\ phase' = "validated") =>
              LET low == LowerCaseOf(opts.OutputFormat)
              IN  /\ low \notin RecognizedFormats =>
                        /\ validateRet'.err # "none"
                        /\ StoreChecksPass => validateRet'.err = "format"
                  /\ low \in RecognizedFormats =>
                        /\ validateRet'.err # "format"
                        /\ StoreChecksPass => opts'.OutputFormat = low
        /\ phase' = "executed" =>
              /\ validateRet.err = "none"
              /\ opts.OutputFormat \in RecognizedFormats
              /\ Len(execRet'.results) > 0 =>
                    /\ opts.OutputFormat \in {"", "wide"} => execRet'.path = "tabular"
                    /\ opts.OutputFormat \in {"json", "yaml"} => execRet'.path = "structured"
              /\ execRet'.path = "tabular" =>
                    \A o \in 1..Len(execRet'.out) :
                       execRet'.out[o].kind \in {"Table", "Newline"}
              /\ execRet'.path = "structured" =>
                    \A o \in 1..Len(execRet'.out) :
                       execRet'.out[o].kind \in FiveKinds \cup {"List"}
      ]_vars

\* C12 witness: the format XML, given with a recognized type and a store
\* that opens, is lowercased and rejected as an invalid format, and nothing
\* has been retrieved.
C12_Witness ==
    /\ phase = "validated"
    /\ StoreChecksPass
    /\ opts.OutputFormat = "xml"
    /\ validateRet.err = "format"
    /\ execRet = NoExec

\* the checks of Validate in the order the claim gives them, each with the
\* error it raises and whether it fails
ValidateChecks ==
    << <<"noType", Len(args) = 0>>,
       <<"unrecognized", Len(args) > 0 /\ args[1] \notin DOMAIN availableResources>>,
       <<"notExist", ~opts.pathExists>>,
       <<"initDB", ~opts.dbOpens>>,
       <<"format", LowerCaseOf(opts.OutputFormat) \notin RecognizedFormats>>,
       <<"onlyOne", Len(args) >= 2 /\ args[1] = "all">> >>

\* the checks that fail
FailingChecks == { c \in 1..Len(ValidateChecks) : ValidateChecks[c][2] }

\* the first check that fails
FirstFailing == CHOOSE c \in FailingChecks : \A d \in FailingChecks : c <= d

\* C13: Validate returns the error of the first check that fails in the
\* order type given, type recognized, store path exists, store opens, format
\* recognized, no names with all, and nil when none fails; the store is
\* opened only when the type is recognized and the path exists, and nothing
\* is retrieved after a failed Validate.
C13_FirstFailingCheckDecides ==
    /\ phase = "validated" =>
          /\ validateRet.err =
                IF FailingChecks = {} THEN "none" ELSE ValidateChecks[FirstFailing][1]
          /\ validateRet.opened =>
                /\ Len(args) > 0 /\ args[1] \in DOMAIN availableResources
                /\ opts.pathExists
          /\ execRet = NoExec
    /\ phase = "executed" => validateRet.err = "none" /\ validateRet.opened

\* C13 witness: the type widget with a store path that does not exist and an
\* unknown format fails as an unrecognized type, the store untouched.
C13_Witness ==
    /\ phase = "validated"
    /\ args = <<"widget">>
    /\ ~opts.pathExists
    /\ LowerCaseOf(opts.OutputFormat) = "xml"
    /\ validateRet.err = "unrecognized"
    /\ ~validateRet.opened
    /\ execRet = NoExec

\* what retrieval and selector filtering leave ExecuteGet to print
Retrieved == QueryDataFromDatabase(opts, store, failing, args[1], Tail(args))

Filtered ==
    IF Len(selector) > 0
    THEN FilterSelector(Retrieved.results, selector)
    ELSE [outcome |-> "ok", results |-> Retrieved.results]

NothingToPrint ==
    /\ Retrieved.err = "none"
    /\ Filtered.outcome = "ok"
    /\ Len(Filtered.results) = 0

\* C16: when retrieval and selector filtering succeed and leave no record,
\* ExecuteGet returns nil having written one line, that no resources were
\* found in the namespace of the options, and no table, container or object;
\* that line is written in no other case.
C16_EmptyResultSet ==
    phase = "executed" =>
        /\ NothingToPrint =>
              /\ execRet.err = "none"
              /\ execRet.path = "empty"
              /\ execRet.out = <<NoResourcesFound(opts.Namespace)>>
        /\ ~NothingToPrint =>
              /\ execRet.path # "empty"
              /\ \A o \in 1..Len(execRet.out) :
                    execRet.out[o].kind # "No resources found"

\* C16 witness: the selector a!=a drops the one pod retrieved, which is
\* labelled a=a, and the line is written.
C16_Witness ==
    /\ phase = "executed"
    /\ selector = <<"a", "!", "=", "a">>
    /\ Len(Retrieved.results) = 1
    /\ Retrieved.results[1].Type = "pod"
    /\ NothingToPrint
    /\ execRet.err = "none"
    /\ execRet.out = <<NoResourcesFound(NsDefault)>>

====
